---- MODULE Spec2Model ----
(***************************************************************************)
(* dpp::snowflake_t (include/dpp/snowflake.h, src/dpp/snowflake.cpp) and   *)
(* dpp::managed (include/dpp/managed.h).                                   *)
(*                                                                         *)
(* A uint64_t is a little-endian sequence of NLimbs limbs of LimbBits bits *)
(* each, so that every operation keeps the full 64-bit width.  A           *)
(* std::string is a sequence of one-character strings.                     *)
(***************************************************************************)
EXTENDS Integers, Sequences, FiniteSets, TLC

VARIABLES value, last, wire, other, out, ents, conv, fields

vars == <<value, last, wire, other, out, ents, conv, fields>>

-----------------------------------------------------------------------------
(* uint64_t arithmetic                                                     *)

LimbBits == 16
NLimbs == 4
B == 2^LimbBits

Zero64 == [j \in 1..NLimbs |-> 0]
Max64 == [j \in 1..NLimbs |-> B - 1]

\* a small non-negative int as a uint64_t
U64(n) == [j \in 1..NLimbs |-> IF j = 1 THEN n % B ELSE IF j = 2 THEN n \div B ELSE 0]

Limb(a, j) == IF j >= 1 /\ j <= Len(a) THEN a[j] ELSE 0

IsZero(a) == \A j \in 1..Len(a) : a[j] = 0

\* a < b on unsigned integers of the same width: decided by the most
\* significant limb in which they differ
Less(a, b) ==
    \E j \in 1..Len(a) :
        /\ a[j] < b[j]
        /\ \A k \in (j + 1)..Len(a) : a[k] = b[k]

\* x & y on 4-bit numbers
BitAnd4(x, y) ==
    (x % 2) * (y % 2)
    + 2 * ((x \div 2) % 2) * ((y \div 2) % 2)
    + 4 * ((x \div 4) % 2) * ((y \div 4) % 2)
    + 8 * (x \div 8) * (y \div 8)

\* x & y on limbs
BitAnd(x, y) ==
    BitAnd4(x % 16, y % 16)
    + 16 * BitAnd4((x \div 16) % 16, (y \div 16) % 16)
    + 256 * BitAnd4((x \div 256) % 16, (y \div 256) % 16)
    + 4096 * BitAnd4(x \div 4096, y \div 4096)

\* a & b
And(a, b) == [j \in 1..Len(a) |-> BitAnd(a[j], b[j])]

\* a | b
Or(a, b) == [j \in 1..Len(a) |-> a[j] + b[j] - BitAnd(a[j], b[j])]

\* a >> k
Shr(a, k) ==
    LET q == k \div LimbBits
        r == k % LimbBits
    IN  [j \in 1..Len(a) |->
            (Limb(a, j + q) \div 2^r) + (Limb(a, j + q + 1) % 2^r) * 2^(LimbBits - r)]

\* a << k, truncated to the width of a
Shl(a, k) ==
    LET q == k \div LimbBits
        r == k % LimbBits
    IN  [j \in 1..Len(a) |->
            ((Limb(a, j - q) * 2^r) % B) + (Limb(a, j - q - 1) \div 2^(LimbBits - r))]

\* a + b on 64-bit integers: the sum modulo 2^64 and the carry out of bit 63
Add(a, b) ==
    LET t1 == a[1] + b[1]
        t2 == a[2] + b[2] + t1 \div B
        t3 == a[3] + b[3] + t2 \div B
        t4 == a[4] + b[4] + t3 \div B
    IN  [val |-> <<t1 % B, t2 % B, t3 % B, t4 % B>>, carry |-> t4 \div B]

\* a * m + d on 64-bit integers for small m, d: the result modulo 2^64 and
\* what overflowed
MulAdd(a, m, d) ==
    LET t1 == a[1] * m + d
        t2 == a[2] * m + t1 \div B
        t3 == a[3] * m + t2 \div B
        t4 == a[4] * m + t3 \div B
    IN  [val |-> <<t1 % B, t2 % B, t3 % B, t4 % B>>, carry |-> t4 \div B]

\* long division of the four limbs a[off+1..off+4] by a small d, with the
\* remainder r0 coming in from the limbs above
Div4(a, off, d, r0) ==
    LET t4 == r0 * B + a[off + 4]
        t3 == (t4 % d) * B + a[off + 3]
        t2 == (t3 % d) * B + a[off + 2]
        t1 == (t2 % d) * B + a[off + 1]
    IN  [quot |-> <<t1 \div d, t2 \div d, t3 \div d, t4 \div d>>, rem |-> t1 % d]

\* a / d and a % d for small d, a of 64 or 128 bits
DivSmall(a, d) ==
    IF Len(a) = NLimbs THEN Div4(a, 0, d, 0)
    ELSE LET hi == Div4(a, NLimbs, d, 0)
             lo == Div4(a, 0, d, hi.rem)
         IN  [quot |-> lo.quot \o hi.quot, rem |-> lo.rem]

\* -a in unsigned arithmetic (two's complement)
Neg(a) == Add([j \in 1..NLimbs |-> B - 1 - a[j]], U64(1)).val

-----------------------------------------------------------------------------
(* characters and strings                                                  *)

Digits == <<"0", "1", "2", "3", "4", "5", "6", "7", "8", "9">>
DigitSet == {Digits[k] : k \in 1..10}
DigitVal(c) == (CHOOSE k \in 1..10 : Digits[k] = c) - 1

\* isspace() in the "C" locale: space, \t, \n, \v (the raw character 0x0B,
\* which has no TLA+ escape), \f, \r
isspace(c) == c \in {" ", "\t", "\n", "", "\f", "\r"}

-----------------------------------------------------------------------------
(* std::stoull(str), base 10: strtoull, with its two exceptions            *)

RECURSIVE SkipSpace(_, _)
SkipSpace(s, k) ==
    IF k <= Len(s) /\ isspace(s[k]) THEN SkipSpace(s, k + 1) ELSE k

\* the digit loop of strtoull from position k: the accumulated value, whether
\* any digit was consumed, and whether the magnitude left the 64-bit range
RECURSIVE ParseDigits(_, _, _, _, _)
ParseDigits(s, k, acc, any, erange) ==
    IF k > Len(s) \/ s[k] \notin DigitSet
    THEN [val |-> acc, any |-> any, erange |-> erange, pos |-> k]
    ELSE LET r == MulAdd(acc, 10, DigitVal(s[k]))
         IN  IF r.carry # 0
             THEN ParseDigits(s, k + 1, r.val, TRUE, TRUE)
             ELSE ParseDigits(s, k + 1, r.val, TRUE, erange)

strtoull(s) ==
    LET k == SkipSpace(s, 1)
        signed == k <= Len(s) /\ s[k] \in {"+", "-"}
        neg == signed /\ s[k] = "-"
        r == ParseDigits(s, IF signed THEN k + 1 ELSE k, Zero64, FALSE, FALSE)
    IN  [val |-> IF r.erange THEN Max64 ELSE IF neg THEN Neg(r.val) ELSE r.val,
         any |-> r.any, erange |-> r.erange]

\* a stoull that parses as a signed 64-bit integer (std::stoll's range)
stoull_signed(s) ==
    LET r == strtoull(s)
    IN  IF ~r.any THEN [threw |-> "invalid_argument", val |-> Zero64]
        ELSE IF r.erange \/ r.val[NLimbs] >= B \div 2
        THEN [threw |-> "out_of_range", val |-> Zero64]
        ELSE [threw |-> "none", val |-> r.val]

stoull(s) ==
    LET r == strtoull(s)
    IN  IF ~r.any THEN [threw |-> "invalid_argument", val |-> Zero64]
        ELSE IF r.erange THEN [threw |-> "out_of_range", val |-> Zero64]
        ELSE [threw |-> "none", val |-> r.val]

-----------------------------------------------------------------------------
(* std::to_string(unsigned long long)                                      *)

RECURSIVE to_string(_)
to_string(v) ==
    LET dm == DivSmall(v, 10)
    IN  IF IsZero(dm.quot) THEN <<Digits[dm.rem + 1]>>
        ELSE Append(to_string(dm.quot), Digits[dm.rem + 1])

-----------------------------------------------------------------------------
(* double: a non-negative IEEE-754 binary64 as mant * 2^exp, with          *)
(* 2^52 <= mant < 2^53 (mant = 0, exp = 0 for 0.0)                         *)

MantBits == 53

\* the number of bits of a limb
BitLenInt(x) == CHOOSE n \in 0..LimbBits : x < 2^n /\ (n = 0 \/ 2^(n - 1) <= x)

\* the number of bits of a
BitLen(a) ==
    IF IsZero(a) THEN 0
    ELSE LET j == CHOOSE k \in 1..Len(a) :
                      a[k] # 0 /\ \A h \in (k + 1)..Len(a) : a[h] = 0
         IN  LimbBits * (j - 1) + BitLenInt(a[j])

\* n / d for an unsigned 64-bit n and a small integer d > 0, rounded to the
\* nearest double, ties to even
RoundDiv(n, d) ==
    IF IsZero(n) THEN [mant |-> Zero64, exp |-> 0]
    ELSE
    LET W == [j \in 1..(2 * NLimbs) |-> IF j <= NLimbs THEN 0 ELSE n[j - NLimbs]]
        dm == DivSmall(W, d)
        Q == dm.quot
        s == BitLen(Q) - MantBits
        M0 == Shr(Q, s)
        half == Shr(Q, s - 1)
        sticky == Shl(half, s - 1) # Q \/ dm.rem # 0
        up == half[1] % 2 = 1 /\ (sticky \/ M0[1] % 2 = 1)
        M1 == IF up THEN Add(SubSeq(M0, 1, NLimbs), U64(1)).val
              ELSE SubSeq(M0, 1, NLimbs)
        over == BitLen(M1) > MantBits
        M == IF over THEN Shr(M1, 1) ELSE M1
    IN  [mant |-> M,
         exp |-> s - NLimbs * LimbBits + (IF over THEN 1 ELSE 0)]

\* (double)n
ToDouble(n) == RoundDiv(n, 1)

\* x / d for a double x and a small integer-valued double d
DoubleDiv(x, d) ==
    LET r == RoundDiv(x.mant, d)
    IN  IF IsZero(x.mant) THEN x ELSE [mant |-> r.mant, exp |-> r.exp + x.exp]

\* x < y on non-negative doubles
DoubleLess(x, y) ==
    IF IsZero(y.mant) THEN FALSE
    ELSE IF IsZero(x.mant) THEN TRUE
    ELSE IF x.exp # y.exp THEN x.exp < y.exp
    ELSE Less(x.mant, y.mant)

-----------------------------------------------------------------------------
(* snowflake_t<void>                                                       *)

\* snowflake_t(const uint64_t& value)
snowflake_from_int(n) == n

\* snowflake_t(const std::string& string_value)
snowflake_from_string(s) ==
    LET r == stoull(s)
    IN  IF r.threw = "none" THEN r.val ELSE Zero64

\* snowflake_t()
snowflake_default == snowflake_from_int(Zero64)

\* operator uint64_t()
to_uint64(v) == v

\* empty()
empty(v) == v = Zero64

\* an operator=(const std::string&) that keeps the old value when the parse throws
assign_string_keep(cur, s) ==
    LET r == stoull(s)
    IN  IF r.threw = "none" THEN r.val ELSE cur

\* operator=(const std::string&) on a snowflake holding cur
assign_string(cur, s) ==
    LET r == stoull(s)
    IN  IF r.threw = "none" THEN r.val ELSE Zero64

\* operator=(const uint64_t&) on a snowflake holding cur
assign_int(cur, n) == n

\* operator==(const snowflake&)
snowflake_eq(v, o) == o = v

\* operator==(const uint64_t&)
snowflake_eq_int(v, n) == n = v

\* an operator< that compares the values as signed 64-bit integers
less_signed(lhs, rhs) ==
    LET flip(a) == [a EXCEPT ![NLimbs] = (a[NLimbs] + B \div 2) % B]
    IN  Less(flip(lhs), flip(rhs))

\* operator<(lhs, rhs)
less(lhs, rhs) == Less(lhs, rhs)

\* a to_string through a 32-bit unsigned
to_json_32(v) == to_string([j \in 1..NLimbs |-> IF j <= 2 THEN v[j] ELSE 0])

\* operator nlohmann::json()
to_json(v) == to_string(v)

-----------------------------------------------------------------------------
(* decoding accessors                                                      *)

WorkerMask == 4063232      \* 0x3E0000
ProcessMask == 126976      \* 0x1F000
IncrementMask == 4095      \* 0xFFF
EpochSeconds == 1420070400

\* const uint64_t first_january_2016 = 1420070400000
first_january_2016 == MulAdd(U64(EpochSeconds), 1000, 0).val

\* (uint8_t)x and (uint16_t)x of a uint64_t x
Cast8(x) == x[1] % 256
Cast16(x) == x[1] % 65536

\* (value + first_january_2016) with no shift of the value
creation_time_ms_noshift(v) == Add(v, first_january_2016)

\* (value >> 22) + first_january_2016 in uint64_t: the sum and its carry out
creation_time_ms(v) == Add(Shr(v, 22), first_january_2016)

\* get_creation_time()
get_creation_time(v) == DoubleDiv(ToDouble(creation_time_ms(v).val), 1000)

\* (value & 0x3E0000) >> 17, before the cast
worker_bits(v) == Shr(And(v, U64(WorkerMask)), 17)

\* a get_worker_id() that shifts by 16
get_worker_id_16(v) == Cast8(Shr(And(v, U64(WorkerMask)), 16))

\* get_worker_id()
get_worker_id(v) == Cast8(worker_bits(v))

\* a process field masked with 0xF000
process_bits_F000(v) == Shr(And(v, U64(61440)), 12)

\* (value & 0x1F000) >> 12, before the cast
process_bits(v) == Shr(And(v, U64(ProcessMask)), 12)

\* get_process_id()
get_process_id(v) == Cast8(process_bits(v))

\* value & 0xFFF, before the conversion to the return type
increment_bits(v) == And(v, U64(IncrementMask))

\* get_increment()
get_increment(v) == Cast16(increment_bits(v))

-----------------------------------------------------------------------------
(* snowflake_t<T>: a value with a category tag                             *)

Categories == {"void", "guild", "role", "user", "channel"}

\* std::is_same_v<U, void> || std::is_same_v<T, role> && std::is_same_v<U, guild>
conversion_enabled(T, U) == U = "void" \/ (T = "role" /\ U = "guild")

\* is snowflake_t<T> constructible from a snowflake_t<U>: snowflake_t<void>
\* takes any snowflake_t<U> by its copy constructor (snowflake_t<U> derives
\* publicly from it); snowflake_t<T> has its copy constructor and the
\* constrained converting constructor
constructible(T, U) ==
    IF T = "void" THEN TRUE
    ELSE U = T \/ conversion_enabled(T, U)

\* snowflake_t<T>(const snowflake_t<U>&)
convert(src, T) ==
    [tag |-> T, value |-> snowflake_from_int(to_uint64(src.value))]

-----------------------------------------------------------------------------
(* managed<T>: an entity is its id and whatever the concrete entity adds   *)

\* managed(const snowflake_t<T> nid)
managed_ctor(nid, data) == [id |-> nid, data |-> data]

\* managed::get_creation_time()
managed_get_creation_time(m) == get_creation_time(m.id)

\* an operator== that compares the whole entity
managed_eq_all(m, o) == m = o

\* managed::operator==
managed_eq(m, o) == snowflake_eq(m.id, o.id)

\* managed::operator!=
managed_ne(m, o) == ~snowflake_eq(m.id, o.id)

-----------------------------------------------------------------------------
(* the mathematical value of a uint64_t, as decimal digits (least          *)
(* significant first, no leading zero, <<>> for 0), computed in base 10    *)

RECURSIVE DecMulAdd(_, _, _, _)
DecMulAdd(d, m, c, k) ==
    IF k > Len(d)
    THEN IF c = 0 THEN <<>> ELSE <<c % 10>> \o DecMulAdd(d, m, c \div 10, k)
    ELSE LET t == d[k] * m + c
         IN  <<t % 10>> \o DecMulAdd(d, m, t \div 10, k + 1)

RECURSIVE NatFrom(_, _)
NatFrom(a, j) ==
    IF j > Len(a) THEN <<>> ELSE DecMulAdd(NatFrom(a, j + 1), B, a[j], 1)

NatOf(a) == NatFrom(a, 1)

Reverse(q) == [k \in 1..Len(q) |-> q[Len(q) + 1 - k]]

\* the decimal text of a uint64_t
DecimalText(a) ==
    LET d == Reverse(NatOf(a))
    IN  IF d = <<>> THEN <<"0">> ELSE [k \in 1..Len(d) |-> Digits[d[k] + 1]]

RECURSIVE LexLess(_, _, _)
LexLess(x, y, k) ==
    IF k > Len(x) THEN FALSE
    ELSE IF x[k] # y[k] THEN x[k] < y[k]
    ELSE LexLess(x, y, k + 1)

\* x < y on decimal digit sequences, most significant first, no leading zero
DecLess(x, y) ==
    IF Len(x) # Len(y) THEN Len(x) < Len(y) ELSE LexLess(x, y, 1)

\* a < b on the mathematical values
NatLess(a, b) == DecLess(Reverse(NatOf(a)), Reverse(NatOf(b)))

AllDigits(s) == \A k \in 1..Len(s) : s[k] \in DigitSet

RECURSIVE StripZeros(_)
StripZeros(s) ==
    IF Len(s) > 0 /\ s[1] = "0" THEN StripZeros(Tail(s)) ELSE s

\* the digits of a digit string as numbers, leading zeros dropped
Magnitude(s) == LET t == StripZeros(s) IN [k \in 1..Len(t) |-> DigitVal(t[k])]

\* 2^64 - 1 = 18446744073709551615
MaxDigits == <<1,8,4,4,6,7,4,4,0,7,3,7,0,9,5,5,1,6,1,5>>

\* does the digit string s denote a magnitude above 2^64 - 1
ExceedsMax(s) == DecLess(MaxDigits, Magnitude(s))

-----------------------------------------------------------------------------
(* inputs                                                                  *)

MaxLen == 2

Alphabet == {"0", "1", "9", " ", "+", "-", "a"}

Str(ds) == [k \in 1..Len(ds) |-> Digits[ds[k] + 1]]

\* the uint64_t written ds in decimal
Nat64(ds) == ParseDigits(Str(ds), 1, Zero64, FALSE, FALSE).val

D175 == <<1,7,5,9,2,8,8,4,7,2,9,9,1,1,7,0,6,3>>
D123 == <<1,2,3,4,5,6,7,8,9,0,1,2,3,4,5,6,7,8>>

V175 == Nat64(D175)
V123 == Nat64(D123)

DecimalSamples ==
    { <<0>>, <<1>>, <<4,2>>, D175, D123, MaxDigits,
      <<4,1,9,4,3,0,3>>,                               \* 2^22 - 1
      <<4,1,9,4,3,0,4>>,                               \* 2^22
      <<4,2,9,4,9,6,7,2,9,6>>,                         \* 2^32
      <<9,2,2,3,3,7,2,0,3,6,8,5,4,7,7,5,8,0,8>> }      \* 2^63

OverflowSamples ==
    { <<1,8,4,4,6,7,4,4,0,7,3,7,0,9,5,5,1,6,1,6>>,     \* 2^64
      <<9,9,9,9,9,9,9,9,9,9,9,9,9,9,9,9,9,9,9,9>>,
      <<1,0,0,0,0,0,0,0,0,0,0,0,0,0,0,0,0,0,0,0,0>>,
      <<3,6,8,9,3,4,8,8,1,4,7,4,1,9,1,0,3,2,3,2>> }    \* 2^65

IntInputs == {Nat64(d) : d \in DecimalSamples}

StringInputs ==
    UNION {[1..n -> Alphabet] : n \in 0..MaxLen}
    \cup {Str(d) : d \in DecimalSamples \cup OverflowSamples}
    \cup {<<"0", "0", "0">> \o Str(d) : d \in {D123, MaxDigits} \cup OverflowSamples}
    \cup {<<"-">> \o Str(d) : d \in {<<1>>, MaxDigits} \cup OverflowSamples}
    \cup {<<" ", "+">> \o Str(D123), Str(D123) \o <<"a", "b", "c">>,
          Str(D175) \o <<".", "5">>, <<"\t", "7">>, <<"", "1">>,
          <<" ", "", "\t", "9">>, <<"+">>, <<"+", "9">>,
          <<"+", "-", "1">>, <<"9", "9", "9">>, <<"0", "x", "1", "0">>,
          <<"n", "o", "t", "-", "a", "-", "n", "u", "m", "b", "e", "r">>}

-----------------------------------------------------------------------------
(* one snowflake object: construction, assignment, serialisation           *)
(*   value : the object's value member                                     *)
(*   last  : the operation that produced it and that operation's argument  *)
(*   wire  : the json string last produced from it (<<>> when none is)     *)

NoOut == [fn |-> "none"]
NoTyped == [tag |-> "void", value |-> Zero64]
NoConv == [status |-> "none", src |-> NoTyped, to |-> "void", dst |-> NoTyped]
NoFields == [t |-> Zero64, w |-> 0, p |-> 0, i |-> 0]

Op(op, text, num, prev) ==
    [op |-> op, text |-> text, num |-> num, prevEmpty |-> empty(prev)]


\* the object as one of its three constructors leaves it
Init ==
    /\ \/ /\ value = snowflake_default
          /\ last = Op("ctor_default", <<>>, Zero64, Zero64)
       \/ \E n \in IntInputs :
              /\ value = snowflake_from_int(n)
              /\ last = Op("ctor_int", <<>>, n, Zero64)
       \/ \E s \in StringInputs :
              /\ value = snowflake_from_string(s)
              /\ last = Op("ctor_string", s, Zero64, Zero64)
    /\ wire = <<>>
    /\ other = Zero64 /\ out = NoOut /\ ents = <<>> /\ conv = NoConv /\ fields = NoFields

AssignInt ==
    \E n \in IntInputs :
        /\ value' = assign_int(value, n)
        /\ last' = Op("assign_int", <<>>, n, value)
        /\ wire' = <<>>
        /\ UNCHANGED <<other, out, ents, conv, fields>>

AssignString ==
    \E s \in StringInputs :
        /\ value' = assign_string(value, s)
        /\ last' = Op("assign_string", s, Zero64, value)
        /\ wire' = <<>>
        /\ UNCHANGED <<other, out, ents, conv, fields>>

ToJson ==
    /\ wire = <<>>
    /\ wire' = to_json(value)
    /\ UNCHANGED <<value, last, other, out, ents, conv, fields>>

Next ==
    \/ AssignInt
    \/ AssignString
    \/ ToJson

Spec == Init /\ [][Next]_vars

-----------------------------------------------------------------------------
(* decoding a snowflake built from its four fields                         *)
(*   fields : the timestamp, worker id, process id and increment that the  *)
(*            value was put together from                                  *)
(*   out    : the accessor last called and what it returned                *)

\* (t << 22) | (w << 17) | (p << 12) | i
Compose(t, w, p, i) ==
    Or(Or(Or(Shl(t, 22), Shl(U64(w), 17)), Shl(U64(p), 12)), U64(i))

TSamples == {Nat64(<<0>>), Shr(V175, 22),
             Nat64(<<4,3,9,8,0,4,6,5,1,1,1,0,3>>)}     \* 2^42 - 1
WSamples == 0..31
PSamples == 0..31
ISamples == {0, 1, 2730, 4095}

InitDecode ==
    \E t \in TSamples, w \in WSamples, p \in PSamples, i \in ISamples :
        /\ value = snowflake_from_int(Compose(t, w, p, i))
        /\ fields = [t |-> t, w |-> w, p |-> p, i |-> i]
        /\ last = Op("ctor_int", <<>>, Compose(t, w, p, i), Zero64)
        /\ wire = <<>>
        /\ other = Zero64 /\ out = NoOut /\ ents = <<>> /\ conv = NoConv

GetWorkerId ==
    /\ out' = [fn |-> "get_worker_id", res |-> get_worker_id(value)]
    /\ UNCHANGED <<value, last, wire, other, ents, conv, fields>>

GetProcessId ==
    /\ out' = [fn |-> "get_process_id", res |-> get_process_id(value)]
    /\ UNCHANGED <<value, last, wire, other, ents, conv, fields>>

GetIncrement ==
    /\ out' = [fn |-> "get_increment", res |-> get_increment(value)]
    /\ UNCHANGED <<value, last, wire, other, ents, conv, fields>>

NextDecode ==
    \/ GetWorkerId
    \/ GetProcessId
    \/ GetIncrement

SpecDecode == InitDecode /\ [][NextDecode]_vars

-----------------------------------------------------------------------------
(* two snowflakes compared                                                 *)

OrderInputs ==
    {Compose(t, w, p, i) :
        t \in {Nat64(<<0>>), Nat64(<<1>>), Nat64(<<4,3,9,8,0,4,6,5,1,1,1,0,3>>)},
        w \in {0, 1, 31}, p \in {0, 31}, i \in {0, 1, 4095}}

InitOrder ==
    /\ value \in OrderInputs
    /\ other \in OrderInputs
    /\ last = Op("ctor_int", <<>>, value, Zero64)
    /\ wire = <<>>
    /\ out = NoOut /\ ents = <<>> /\ conv = NoConv /\ fields = NoFields

LessThan ==
    /\ out' = [fn |-> "less", res |-> less(value, other)]
    /\ UNCHANGED <<value, last, wire, other, ents, conv, fields>>

Equals ==
    /\ out' = [fn |-> "eq", res |-> snowflake_eq(value, other)]
    /\ UNCHANGED <<value, last, wire, other, ents, conv, fields>>

EqualsInt ==
    /\ out' = [fn |-> "eq_int", res |-> snowflake_eq_int(value, to_uint64(other))]
    /\ UNCHANGED <<value, last, wire, other, ents, conv, fields>>

NextOrder ==
    \/ LessThan
    \/ Equals
    \/ EqualsInt

SpecOrder == InitOrder /\ [][NextOrder]_vars

-----------------------------------------------------------------------------
(* two managed entities                                                    *)
(*   ents : the two entities, each its id and the concrete entity's state  *)

EntityData == {"fresh", "stale"}

InitManaged ==
    /\ ents \in {<<managed_ctor(a, x), managed_ctor(b, y)>> :
                    a \in IntInputs, b \in IntInputs, x \in EntityData, y \in EntityData}
    /\ value = Zero64 /\ last = Op("ctor_default", <<>>, Zero64, Zero64) /\ wire = <<>>
    /\ other = Zero64 /\ out = NoOut /\ conv = NoConv /\ fields = NoFields

ManagedEquals ==
    /\ out' = [fn |-> "managed_eq", k |-> 1, res |-> managed_eq(ents[1], ents[2])]
    /\ UNCHANGED <<value, last, wire, other, ents, conv, fields>>

ManagedNotEquals ==
    /\ out' = [fn |-> "managed_ne", k |-> 1, res |-> managed_ne(ents[1], ents[2])]
    /\ UNCHANGED <<value, last, wire, other, ents, conv, fields>>

ManagedCreationTime ==
    \E k \in 1..2 :
        /\ out' = [fn |-> "managed_get_creation_time", k |-> k,
                   res |-> managed_get_creation_time(ents[k])]
        /\ UNCHANGED <<value, last, wire, other, ents, conv, fields>>

IdCreationTime ==
    \E k \in 1..2 :
        /\ out' = [fn |-> "get_creation_time", k |-> k,
                   res |-> get_creation_time(ents[k].id)]
        /\ UNCHANGED <<value, last, wire, other, ents, conv, fields>>

NextManaged ==
    \/ ManagedEquals
    \/ ManagedNotEquals
    \/ ManagedCreationTime
    \/ IdCreationTime

SpecManaged == InitManaged /\ [][NextManaged]_vars

-----------------------------------------------------------------------------
(* converting a snowflake_t<U> to a snowflake_t<T>                         *)
(*   conv : the source, the category asked for, whether the conversion is  *)
(*          well-formed, and the snowflake it gives                        *)

InitConv ==
    /\ \E U \in Categories, n \in IntInputs :
          conv = [status |-> "none", src |-> [tag |-> U, value |-> n],
                  to |-> U, dst |-> [tag |-> U, value |-> n]]
    /\ value = Zero64 /\ last = Op("ctor_default", <<>>, Zero64, Zero64) /\ wire = <<>>
    /\ other = Zero64 /\ out = NoOut /\ ents = <<>> /\ fields = NoFields

Convert ==
    \E T \in Categories :
        /\ conv' = IF constructible(T, conv.src.tag)
                   THEN [status |-> "ok", src |-> conv.src, to |-> T,
                         dst |-> convert(conv.src, T)]
                   ELSE [status |-> "ill_formed", src |-> conv.src, to |-> T,
                         dst |-> conv.src]
        /\ UNCHANGED <<value, last, wire, other, out, ents, fields>>

NextConv == Convert

SpecConv == InitConv /\ [][NextConv]_vars

-----------------------------------------------------------------------------
(* claims                                                                  *)

\* a string the specification calls unparseable: empty, holding a character
\* that is no digit, or all digits with a magnitude above 2^64 - 1
Unparseable(s) == s = <<>> \/ ~AllDigits(s) \/ ExceedsMax(s)

\* C1: a snowflake constructed from an empty string, a string with any
\* non-digit character, or a digit string above 2^64 - 1 is the empty
\* snowflake (value 0).
C1_UnparseableGivesEmpty ==
    (last.op = "ctor_string" /\ Unparseable(last.text)) => empty(value)

\* C2: a snowflake constructed from a non-empty string of decimal digits
\* denoting n <= 2^64 - 1 (leading zeros allowed) holds exactly n.
C2_DigitStringParsesExactly ==
    (last.op = "ctor_string" /\ last.text # <<>> /\ AllDigits(last.text)
        /\ ~ExceedsMax(last.text))
    => Reverse(NatOf(to_uint64(value))) = Magnitude(last.text)

\* C2 happens: "00018446744073709551615" was parsed to 2^64 - 1
C2_Witness ==
    /\ last.op = "ctor_string"
    /\ last.text = <<"0", "0", "0">> \o Str(MaxDigits)
    /\ value = Max64

\* C3: for the value (t << 22) | (w << 17) | (p << 12) | i, get_worker_id
\* returns w, get_process_id returns p and get_increment returns i.
C3_DecodeRoundTrip ==
    /\ value = Compose(fields.t, fields.w, fields.p, fields.i)
    /\ out.fn = "get_worker_id" => out.res = fields.w
    /\ out.fn = "get_process_id" => out.res = fields.p
    /\ out.fn = "get_increment" => out.res = fields.i

\* C3 happens: worker id 21 read back from a value whose other fields are
\* all ones
C3_Witness ==
    /\ out.fn = "get_worker_id" /\ out.res = 21
    /\ fields.p = 31 /\ fields.i = 4095 /\ fields.t = Shr(Max64, 22)

\* the decoded tuple of a before that of b, field by field
TupleLess(a, b) ==
    LET ta == Shr(a, 22)
        tb == Shr(b, 22)
    IN  IF ta # tb THEN NatLess(ta, tb)
        ELSE IF get_worker_id(a) # get_worker_id(b)
        THEN get_worker_id(a) < get_worker_id(b)
        ELSE IF get_process_id(a) # get_process_id(b)
        THEN get_process_id(a) < get_process_id(b)
        ELSE get_increment(a) < get_increment(b)

\* C4: a < b exactly when a's 64-bit value is below b's, which is the
\* lexicographic order on (timestamp field, worker id, process id,
\* increment); and a < b implies a's creation time is not later than b's.
C4_OrderIsRawAndFieldOrder ==
    out.fn = "less" =>
        /\ out.res = NatLess(value, other)
        /\ out.res = TupleLess(value, other)
        /\ out.res => ~DoubleLess(get_creation_time(other), get_creation_time(value))

\* C4 happens: two values with the top bit set and the same timestamp,
\* worker id and process id, ordered by their increments
C4_Witness ==
    /\ out.fn = "less" /\ out.res
    /\ value[NLimbs] >= B \div 2
    /\ Shr(value, 12) = Shr(other, 12)
    /\ get_increment(value) < get_increment(other)

\* C5: between distinct categories exactly void -> any and guild -> role
\* are allowed; every other pair is rejected.  The code also accepts
\* any tagged -> void (snowflake_t<T> derives publicly from snowflake_t<void>).
C5_OnlyTwoShapes ==
    (conv.status # "none" /\ conv.src.tag # conv.to) =>
        (conv.status = "ok" <=>
            (conv.src.tag = "void" \/ (conv.src.tag = "guild" /\ conv.to = "role")))

\* C6: two managed entities are equal exactly when their ids are, whatever
\* else they hold, and operator!= is the negation of operator==.
C6_EqualityIsIdEquality ==
    /\ out.fn = "managed_eq" => out.res = (NatOf(ents[1].id) = NatOf(ents[2].id))
    /\ out.fn = "managed_ne" => out.res = ~managed_eq(ents[1], ents[2])

\* C6 happens: entities with one id and different other state compared equal
C6_Witness ==
    /\ out.fn = "managed_eq" /\ out.res
    /\ ents[1].data # ents[2].data /\ ~empty(ents[1].id)

\* C7: after an assignment the value is what construction from the same
\* argument gives, whatever was held before; a textual assignment whose
\* parse throws leaves 0.
C7_AssignIsConstruct ==
    /\ last.op = "assign_string" =>
          /\ value = snowflake_from_string(last.text)
          /\ stoull(last.text).threw # "none" => value = Zero64
    /\ last.op = "assign_int" => value = snowflake_from_int(last.num)

\* C7 happens: an out-of-range text assigned to a non-empty snowflake left 0
C7_Witness ==
    /\ last.op = "assign_string" /\ ~last.prevEmpty
    /\ stoull(last.text).threw = "out_of_range"
    /\ empty(value)

\* C8: the json form of a snowflake is the decimal text of its value, and
\* constructing a snowflake from that text gives the value back.
C8_WireRoundTrip ==
    wire # <<>> =>
        /\ wire = DecimalText(value)
        /\ to_uint64(snowflake_from_string(wire)) = value

\* C8 happens: 123456789012345678 constructed from the integer and rendered
C8_Witness ==
    /\ last.op = "ctor_int" /\ last.num = V123
    /\ wire = Str(D123)

\* 2^22, and the epoch as a double of seconds
TwoTo22 == Shl(U64(1), 22)
EpochDouble == ToDouble(U64(EpochSeconds))

\* C9: (v >> 22) + 1420070400000 does not wrap, is never below the epoch
\* constant, equals it exactly when v < 2^22, and is above it for
\* v = 175928847299117063; managed::get_creation_time returns what its
\* id's get_creation_time returns.
C9_CreationTime ==
    /\ \A k \in 1..Len(ents) :
          LET v == ents[k].id
              ms == creation_time_ms(v)
          IN  /\ ms.carry = 0
              /\ ~NatLess(ms.val, first_january_2016)
              /\ (ms.val = first_january_2016) <=> NatLess(v, TwoTo22)
              /\ v = V175 => NatLess(first_january_2016, ms.val)
              /\ ~DoubleLess(get_creation_time(v), EpochDouble)
    /\ out.fn = "managed_get_creation_time" =>
          out.res = get_creation_time(ents[out.k].id)

\* C9 happens: the creation time of an entity with id 175928847299117063,
\* after the epoch
C9_Witness ==
    /\ out.fn = "managed_get_creation_time"
    /\ ents[out.k].id = V175
    /\ DoubleLess(EpochDouble, out.res)

\* C10: worker id and process id are below 32 and the increment below 4096,
\* the narrowing casts drop no set bit, and the timestamp field and the
\* three accessors put the value back together.
C10_FieldsPartitionValue ==
    /\ out.fn = "get_worker_id" => (out.res < 32 /\ U64(out.res) = worker_bits(value))
    /\ out.fn = "get_process_id" => (out.res < 32 /\ U64(out.res) = process_bits(value))
    /\ out.fn = "get_increment" => (out.res < 4096 /\ U64(out.res) = increment_bits(value))
    /\ value = Compose(Shr(value, 22), get_worker_id(value), get_process_id(value),
                       get_increment(value))

\* C10 happens: process id 31 read from a value with every bit set
C10_Witness ==
    /\ out.fn = "get_process_id" /\ out.res = 31
    /\ value = Max64
====
